---- MODULE Spec2Model ----
(***************************************************************************)
(* A model of ripozo_mongokit.MongoKitManager: the translation of lookup   *)
(* dictionaries into MongoDB queries (_get_query), the serialization of    *)
(* documents (_serialize_model), the pagination arithmetic of              *)
(* retrieve_list, and the CRUDL operations on a collection.                *)
(*                                                                         *)
(* Python values are tagged pairs <<tag, payload>>, so that values of      *)
(* different Python types are never equal.  A Python string is a sequence  *)
(* of symbols; a symbol stands for a run of characters ("name", "Regex")   *)
(* that no string operation of the manager ever splits.  A dict is a       *)
(* function from keys (strings) to values; the order in which a dict is    *)
(* iterated is given by iter_order.                                        *)
(***************************************************************************)
EXTENDS Integers, Sequences, FiniteSets, TLC

VARIABLES
    id_field,        \* MongoKitManager.id_field (class attribute of the subclass)
    exclude_fields,  \* MongoKitManager.exclude_fields
    all_fields,      \* MongoKitManager.all_fields, set by __init__
    iter_order,      \* the order in which six.iteritems walks the keys of a dict
    store,           \* the documents of self.collection, in natural order
    db_calls,        \* what the last call asked of the collection (as a mock records it)
    call,            \* the manager call being made: its name and arguments
    ret,             \* what the call returned (NoRet before it returns)
    database_name,   \* MongoKitManager.database_name (class attribute)
    collection_name, \* MongoKitManager.collection_name (class attribute)
    model_cls,       \* self.model, the Document class: its name, collection, database
    registered,      \* the calls connection.register has received, oldest first
    _connection,     \* MongoKitManager._connection of the instance
    collection,      \* MongoKitManager.collection of the instance
    walk             \* a client that follows the next links: calls made, data gathered

\* What __init__ reads and writes besides all_fields.
manager_vars == <<database_name, collection_name, model_cls, registered, _connection, collection>>

vars == <<id_field, exclude_fields, all_fields, iter_order, store, db_calls, call, ret,
          manager_vars, walk>>

(***************************************************************************)
(* Bounds of the model.                                                    *)
(***************************************************************************)
MaxListLen == 2      \* longest list / tuple / set value of a lookup or a document
MaxDocs == 11        \* most documents the collection holds
MaxPageSize == 3     \* largest page size asked for
MaxPageNumber == 6   \* largest page number asked for
MaxManagers == 2     \* most managers constructed on one connection

(***************************************************************************)
(* Python values.                                                          *)
(***************************************************************************)
Tag(v) == v[1]
Val(v) == v[2]

None == <<"none", "None">>
PyInt(n) == <<"int", n>>
PyStr(s) == <<"str", s>>
Oid(n) == <<"oid", n>>
Temporal(kind, n) == <<kind, n>>
PyList(s) == <<"list", s>>
PyDict(f) == <<"dict", f>>
Raise(e) == <<"raise", e>>
NoRet == <<"noret", "noret">>

IsRaise(v) == Tag(v) = "raise"
IsSeqTag(t) == t \in {"list", "tuple", "set"}
\* datetime.datetime, datetime.date, datetime.time, datetime.timedelta
IsTemporalTag(t) == t \in {"datetime", "date", "time", "timedelta"}

\* Nothing has been asked of the collection.
NoCalls == [find |-> None, sort |-> None, skip |-> None, limit |-> None, cursor |-> <<>>]

\* No client is following links.
NoWalk == [calls |-> 0, data |-> <<>>]

EmptyFn == <<>>
EmptyDict == PyDict(EmptyFn)

\* d[k] = v on the payload of a dict
Put(f, k, v) == (k :> v) @@ f
\* d.update(g) on the payloads
Update(f, g) == g @@ f
\* del d[k]
Del(f, k) == [x \in (DOMAIN f) \ {k} |-> f[x]]

\* The keys of the dict payload f in the order iteritems yields them.
Items(f) == SelectSeq(iter_order, LAMBDA k : k \in DOMAIN f)

\* bool(v) of a non-dict value
Truthy(v) ==
    CASE Tag(v) = "none" -> FALSE
      [] Tag(v) = "int" -> Val(v) # 0
      [] Tag(v) = "str" -> Val(v) # <<>>
      [] IsSeqTag(Tag(v)) -> Val(v) # <<>>
      [] Tag(v) = "dict" -> DOMAIN Val(v) # {}
      [] OTHER -> TRUE

(***************************************************************************)
(* Strings.                                                                *)
(***************************************************************************)
K__id == <<"_id">>
K_id == <<"id">>
K_name == <<"name">>
K_age == <<"age">>
K_secret == <<"secret">>
K_address == <<"address">>
K_nameRegex == <<"name", "Regex">>
K_RegexnameRegex == <<"Regex", "name", "Regex">>
K_in == <<"$in">>
K_regex == <<"$regex">>
K_options == <<"$options">>

\* str.endswith
EndsWith(s, suffix) ==
    /\ Len(s) >= Len(suffix)
    /\ SubSeq(s, Len(s) - Len(suffix) + 1, Len(s)) = suffix

\* s.replace(old, ''): every non-overlapping occurrence of old, left to right
RECURSIVE Replace(_, _)
Replace(s, old) ==
    IF old = <<>> \/ Len(s) < Len(old) THEN s
    ELSE IF SubSeq(s, 1, Len(old)) = old
         THEN Replace(SubSeq(s, Len(old) + 1, Len(s)), old)
         ELSE <<Head(s)>> \o Replace(Tail(s), old)

(***************************************************************************)
(* bson.ObjectId: 12 bytes, written as 24 hex digits.  Oid(n) for n >= 1   *)
(* is the identifier with the n-th bit pattern below; Oid(0) is an         *)
(* identifier ObjectId() has just generated.                               *)
(***************************************************************************)
KnownHexLower == <<
    <<"507f191e810c19729de860ea">>,
    <<"123456789012123456789011">>,
    <<"123456789012123456789012">>,
    <<"123456789012123456789013">> >>
KnownHexUpper == <<
    <<"507F191E810C19729DE860EA">>,
    <<"123456789012123456789011">>,
    <<"123456789012123456789012">>,
    <<"123456789012123456789013">> >>
OidNumbers == 1..(MaxDocs + Len(KnownHexLower))

\* The 24 hex digits of the n-th identifier, in lower and in upper case.
HexLower == [n \in OidNumbers |->
    IF n <= Len(KnownHexLower) THEN KnownHexLower[n] ELSE <<"0000000000000000000000", ToString(n)>>]
HexUpper == [n \in OidNumbers |->
    IF n <= Len(KnownHexUpper) THEN KnownHexUpper[n] ELSE <<"0000000000000000000000", ToString(n)>>]

\* ObjectId(value): None generates an identifier, an ObjectId is copied, a
\* string of 24 hex digits is parsed, any other string raises InvalidId, and
\* a value of any other type raises TypeError.
ObjectId(value) ==
    CASE Tag(value) = "none" -> Oid(0)
      [] Tag(value) = "oid" -> value
      [] Tag(value) = "str" ->
            IF \E n \in OidNumbers : Val(value) \in {HexLower[n], HexUpper[n]}
            THEN Oid(CHOOSE n \in OidNumbers : Val(value) \in {HexLower[n], HexUpper[n]})
            ELSE Raise("InvalidId")
      [] OTHER -> Raise("TypeError")

\* str(ObjectId): the 24 hex digits in lower case
OidStr(n) == IF n = 0 THEN <<"generated">> ELSE HexLower[n]


\* str(n) of an int
IntStr(n) == <<ToString(n)>>

\* six.text_type of a temporal value: its kind's text form of the value n
TemporalStr(kind, n) == <<kind, IntStr(n)>>

\* str(value)
ToStr(value) ==
    CASE Tag(value) = "none" -> <<"None">>
      [] Tag(value) = "int" -> IntStr(Val(value))
      [] Tag(value) = "str" -> Val(value)
      [] Tag(value) = "oid" -> OidStr(Val(value))
      [] IsTemporalTag(Tag(value)) -> TemporalStr(Tag(value), Val(value))
      [] OTHER -> <<"repr">>

(***************************************************************************)
(* MongoKitManager._get_query and its helpers.                             *)
(***************************************************************************)
regex_suffix == <<"Regex">>

_is_regex_field(field) == EndsWith(field, regex_suffix)

_get_regex_query(field, value) ==
    PyDict(Replace(field, regex_suffix) :>
        PyDict((K_regex :> PyStr(ToStr(value))) @@ (K_options :> PyStr(<<"i">>))))

\* The first exception among the elements of a sequence, or the sequence.
FirstRaise(s) ==
    IF \E i \in 1..Len(s) : IsRaise(s[i])
    THEN s[CHOOSE i \in 1..Len(s) : IsRaise(s[i]) /\ \A j \in 1..(i - 1) : ~IsRaise(s[j])]
    ELSE PyList(s)

RECURSIVE _get_query(_)

\* The historical variant of the loop body: only a list becomes a '$in' clause.
GetQueryEntryListOnly(key, value) ==
    IF key = id_field THEN
      LET oid == ObjectId(value)
      IN  IF oid = Raise("InvalidId") THEN PyDict(K__id :> value)
          ELSE IF IsRaise(oid) THEN oid
          ELSE PyDict(K__id :> oid)
    ELSE IF _is_regex_field(key) THEN _get_regex_query(key, value)
    ELSE IF Tag(value) = "list" THEN
      LET elems == FirstRaise([i \in 1..Len(Val(value)) |-> _get_query(Val(value)[i])])
      IN  IF IsRaise(elems) THEN elems ELSE PyDict(key :> PyDict(K_in :> elems))
    ELSE IF Tag(value) = "dict" THEN
      LET sub == _get_query(value)
      IN  IF IsRaise(sub) THEN sub ELSE PyDict(key :> sub)
    ELSE PyDict(key :> value)

\* One pass of the loop body of _get_query: what the pair (key, value) adds
\* to the query, or the exception it raises.
GetQueryEntry(key, value) ==
    IF key = id_field THEN
      LET oid == ObjectId(value)
      IN  IF oid = Raise("InvalidId") THEN PyDict(K__id :> value)
          ELSE IF IsRaise(oid) THEN oid
          ELSE PyDict(K__id :> oid)
    ELSE IF _is_regex_field(key) THEN _get_regex_query(key, value)
    ELSE IF IsSeqTag(Tag(value)) THEN
      LET elems == FirstRaise([i \in 1..Len(Val(value)) |-> _get_query(Val(value)[i])])
      IN  IF IsRaise(elems) THEN elems ELSE PyDict(key :> PyDict(K_in :> elems))
    ELSE IF Tag(value) = "dict" THEN
      LET sub == _get_query(value)
      IN  IF IsRaise(sub) THEN sub ELSE PyDict(key :> sub)
    ELSE PyDict(key :> value)

\* The loop "for key, value in six.iteritems(lookup_keys)": keys are the keys
\* still to visit, query is the dict built so far.
RECURSIVE GetQueryLoop(_, _, _)
GetQueryLoop(keys, lookup_keys, query) ==
    IF keys = <<>> THEN PyDict(query)
    ELSE LET entry == GetQueryEntry(Head(keys), lookup_keys[Head(keys)])
         IN  IF IsRaise(entry) THEN entry
             ELSE GetQueryLoop(Tail(keys), lookup_keys, Update(query, Val(entry)))

_get_query(lookup_keys) ==
    IF Tag(lookup_keys) = "dict"
    THEN GetQueryLoop(Items(Val(lookup_keys)), Val(lookup_keys), EmptyFn)
    ELSE IF Truthy(lookup_keys) THEN lookup_keys ELSE EmptyDict

(***************************************************************************)
(* MongoKitManager.__init__ and the connection property.                   *)
(***************************************************************************)
\* A mongokit.Connection, and an object that is none (a pymongo client).
Connection == <<"Connection", <<"connection">> >>
MongoClient == <<"MongoClient", <<"client">> >>

\* The Document class: model.__name__, model.__collection__, model.__database__
ModelClass(coll, db) == [__name__ |-> <<"Model">>, __collection__ |-> coll, __database__ |-> db]

\* getattr(connection, name): the collection handle of the registered model
getattr(connection, name) == <<"collection", name>>

\* The connection setter: the value kept, or ValueError.
connection_setter(value) ==
    IF Tag(value) = "Connection" THEN value ELSE Raise("ValueError")

\* The names overwritten as soon as one of the two is configured.
OverwritesNamesEither(db_name, coll_name) == Truthy(db_name) \/ Truthy(coll_name)

\* if self.database_name and self.collection_name
OverwritesNames(db_name, coll_name) == Truthy(db_name) /\ Truthy(coll_name)

\* The manager of the other sections: built on a Connection, with the
\* database and collection names left to the model.
Constructed ==
    /\ database_name = None
    /\ collection_name = None
    /\ model_cls = ModelClass(None, None)
    /\ registered = << <<model_cls.__name__>> >>
    /\ _connection = Connection
    /\ collection = getattr(Connection, model_cls.__name__)

\* The class attributes of the manager: the defaults, and those of the tests.
Configs == {<<K__id, {}>>, <<K_id, {K_name}>>}

\* What a subclass configures as database_name / collection_name.
DatabaseNames == {None, PyStr(<<>>), PyStr(<<"a">>)}
CollectionNames == {None, PyStr(<<>>), PyStr(<<"b">>)}

\* What is passed as connection.
ConnectionArgs == {None, Connection, MongoClient}

\* Before any manager is constructed: the class attributes are set, the
\* model has its own names or none, nothing is registered.
InitConstruct ==
    /\ \E c \in Configs :
         /\ id_field = c[1]
         /\ exclude_fields = c[2]
    /\ all_fields = TRUE
    /\ iter_order = <<>>
    /\ store = <<>>
    /\ db_calls = NoCalls
    /\ call = [op |-> "idle"]
    /\ ret = NoRet
    /\ database_name \in DatabaseNames
    /\ collection_name \in CollectionNames
    /\ model_cls \in {ModelClass(c, d) : c \in {None, PyStr(<<"c">>)},
                                         d \in {None, PyStr(<<"d">>)}}
    /\ registered = <<>>
    /\ _connection = None
    /\ collection = None
    /\ walk = NoWalk

\* Manager(connection=...): a new instance is constructed; ret is None when
\* __init__ returns and the exception when it raises.
Construct ==
    /\ Len(registered) < MaxManagers
    /\ \E connection \in ConnectionArgs :
        LET value == connection_setter(connection)
        IN  /\ call' = [op |-> "__init__", connection |-> connection,
                        before |-> [model_cls |-> model_cls, registered |-> registered]]
            /\ IF IsRaise(value)
               THEN /\ ret' = value
                    /\ _connection' = None
                    /\ collection' = None
                    /\ all_fields' = TRUE
                    /\ UNCHANGED <<model_cls, registered>>
               ELSE /\ ret' = None
                    /\ _connection' = value
                    /\ all_fields' = (Cardinality(exclude_fields) = 0)
                    /\ model_cls' = IF OverwritesNames(database_name, collection_name)
                                    THEN [model_cls EXCEPT !.__collection__ = collection_name,
                                                           !.__database__ = database_name]
                                    ELSE model_cls
                    /\ registered' = Append(registered, <<model_cls.__name__>>)
                    /\ collection' = getattr(value, model_cls.__name__)
    /\ UNCHANGED <<id_field, exclude_fields, iter_order, store, db_calls>>
    /\ UNCHANGED <<database_name, collection_name, walk>>

NextConstruct == Construct

SpecConstruct == InitConstruct /\ [][NextConstruct]_vars

(***************************************************************************)
(* The configurations and the lookups the translation is applied to.       *)
(***************************************************************************)
\* '_id' is the default; 'id' is what the tests configure; '' stands for an
\* id_field that is empty or None (no key equals it).
IdFields == {K__id, K_id, <<>>}

Reverse(s) == [i \in 1..Len(s) |-> s[Len(s) + 1 - i]]

KeyOrder == <<K__id, K_id, K_name, K_nameRegex, K_RegexnameRegex, K_age,
              K_secret, K_address>>
IterOrders == {KeyOrder, Reverse(KeyOrder)}

SeqsUpTo(S, n) == UNION {[1..m -> S] : m \in 0..n}

LookupKeys == {K__id, K_id, K_name, K_nameRegex, K_RegexnameRegex}

LookupScalars ==
    {None, PyInt(0), PyInt(55), PyStr(<<>>), PyStr(<<"Jo">>), PyStr(HexLower[1]),
     PyStr(HexUpper[1]), Oid(1)}

LookupElems ==
    {None, PyInt(0), PyStr(<<"Jo">>), PyDict(K_id :> PyStr(HexLower[1])),
     PyList(<<PyInt(55)>>)}

LookupSeqs ==
    {<<t, s>> : t \in {"list", "tuple", "set"}, s \in SeqsUpTo(LookupElems, MaxListLen)}

LookupNested ==
    {EmptyDict} \cup {PyDict(k :> v) : k \in LookupKeys, v \in LookupScalars}

LookupValues == LookupScalars \cup LookupSeqs \cup LookupNested

\* The value of a second key of the mapping.
LookupSecond == {PyInt(55), PyStr(<<"Jo">>), PyStr(HexLower[1])}

Lookups ==
    LookupScalars \cup LookupSeqs \cup {EmptyDict}
    \cup {PyDict(k :> v) : k \in LookupKeys, v \in LookupValues}
    \cup {PyDict((k1 :> v1) @@ (k2 :> v2)) :
            <<k1, k2>> \in {p \in LookupKeys \X LookupKeys : p[1] # p[2]},
            <<v1, v2>> \in LookupValues \X LookupSecond}

ConfigInit ==
    /\ id_field \in IdFields
    /\ iter_order \in IterOrders
    /\ store = <<>>
    /\ db_calls = NoCalls
    /\ Constructed
    /\ walk = NoWalk

InitQuery ==
    /\ ConfigInit
    /\ exclude_fields = {}
    /\ all_fields = TRUE
    /\ call \in {[op |-> "_get_query", lookup_keys |-> l] : l \in Lookups}
    /\ ret = NoRet

GetQuery ==
    /\ call.op = "_get_query"
    /\ ret = NoRet
    /\ ret' = _get_query(call.lookup_keys)
    /\ UNCHANGED <<id_field, exclude_fields, all_fields, iter_order, store, db_calls, call>>
    /\ UNCHANGED <<manager_vars, walk>>

NextQuery == GetQuery

SpecQuery == InitQuery /\ [][NextQuery]_vars

(***************************************************************************)
(* MongoKitManager._serialize_model and its helpers.  Python changes the   *)
(* document in place and returns it; the operators return the changed      *)
(* document, or the exception raised.                                      *)
(***************************************************************************)
RECURSIVE _serialize_model_helper(_)

\* A helper that converts the values of a mapping but not what they contain.
SerializeHelperShallow(model) ==
    CASE Tag(model) = "none" -> None
      [] Tag(model) = "oid" -> PyStr(OidStr(Val(model)))
      [] IsSeqTag(Tag(model)) ->
            PyList([i \in 1..Len(Val(model)) |-> _serialize_model_helper(Val(model)[i])])
      [] IsTemporalTag(Tag(model)) -> PyStr(TemporalStr(Tag(model), Val(model)))
      [] Tag(model) = "dict" ->
            PyDict([key \in DOMAIN Val(model) |->
                      IF Tag(Val(model)[key]) = "dict"
                      THEN Val(model)[key]
                      ELSE _serialize_model_helper(Val(model)[key])])
      [] OTHER -> model

_serialize_model_helper(model) ==
    CASE Tag(model) = "none" -> None
      [] Tag(model) = "oid" -> PyStr(OidStr(Val(model)))
      [] IsSeqTag(Tag(model)) ->
            PyList([i \in 1..Len(Val(model)) |-> _serialize_model_helper(Val(model)[i])])
      [] IsTemporalTag(Tag(model)) -> PyStr(TemporalStr(Tag(model), Val(model)))
      [] Tag(model) = "dict" ->
            PyDict([key \in DOMAIN Val(model) |-> _serialize_model_helper(Val(model)[key])])
      [] OTHER -> model

\* "key in obj" raises TypeError when obj is None.
_replace_id(obj) ==
    IF id_field = <<>> THEN obj
    ELSE IF Tag(obj) # "dict" THEN Raise("TypeError")
    ELSE IF K__id \in DOMAIN Val(obj)
         THEN PyDict(Put(Del(Val(obj), K__id), id_field, PyStr(ToStr(Val(obj)[K__id]))))
         ELSE obj

_remove_excl_fields(obj) ==
    IF all_fields \/ exclude_fields = {} THEN obj
    ELSE IF Tag(obj) # "dict" THEN Raise("TypeError")
    ELSE PyDict([key \in (DOMAIN Val(obj)) \ exclude_fields |-> Val(obj)[key]])

\* Excluded fields removed before the id is renamed.
SerializeObjExcludeFirst(obj) ==
    LET removed == _remove_excl_fields(obj)
    IN  IF IsRaise(removed) THEN removed ELSE _replace_id(removed)

\* self._replace_id(obj); self._remove_excl_fields(obj)
SerializeObj(obj) ==
    LET replaced == _replace_id(obj)
    IN  IF IsRaise(replaced) THEN replaced ELSE _remove_excl_fields(replaced)

_serialize_model(model) ==
    IF Tag(model) = "none" THEN EmptyDict
    ELSE IF IsSeqTag(Tag(model)) THEN
      LET objs == FirstRaise([i \in 1..Len(Val(model)) |-> SerializeObj(Val(model)[i])])
      IN  IF IsRaise(objs) THEN objs
          ELSE _serialize_model_helper(<<Tag(model), Val(objs)>>)
    ELSE LET obj == SerializeObj(model)
         IN  IF IsRaise(obj) THEN obj ELSE _serialize_model_helper(obj)

(***************************************************************************)
(* The documents and values the serialization is applied to.               *)
(***************************************************************************)
ExcludeChoices ==
    {{}, {K_secret}, {K_secret, K_name}, {K_id}, {K__id}, {K__id, K_secret}}

SerScalars ==
    {None, PyInt(3), PyStr(<<"NYC">>), Oid(2), Temporal("datetime", 1),
     Temporal("timedelta", 7)}

SerElems == {PyInt(3), Oid(2), Temporal("date", 1)}

SerSeqs ==
    {<<t, s>> : t \in {"list", "tuple", "set"}, s \in SeqsUpTo(SerElems, MaxListLen)}

SerInner ==
    {PyDict(K__id :> Oid(2)),
     PyDict((K__id :> Oid(3)) @@ (K_name :> PyList(<<Temporal("time", 1), PyInt(3)>>))),
     PyDict(K_address :> PyDict(K__id :> Oid(2))),
     PyDict(K_address :> PyDict(K_secret :> <<"tuple", <<PyDict(K_id :> Oid(1))>> >>)),
     PyList(<<PyDict(K_name :> Oid(2)), PyList(<<Oid(3)>>)>>)}
    \cup {PyDict((K_name :> v) @@ (K_secret :> PyInt(1))) : v \in SerScalars}

SerValues == SerScalars \cup SerSeqs \cup SerInner

\* A field that may be missing from a document.
Missing == <<"missing", "missing">>
Present(f) == [k \in {x \in DOMAIN f : f[x] # Missing} |-> f[k]]

Documents ==
    {PyDict(Present((K__id :> i) @@ (K_name :> n) @@ (K_secret :> s) @@ (K_id :> d)
                    @@ (K_address :> a))) :
        i \in {Missing, Oid(1), PyInt(7)},
        n \in {Missing, PyStr(<<"Joe">>)},
        s \in {Missing, PyInt(1)},
        d \in {Missing, PyInt(9)},
        a \in {Missing} \cup SerValues}

ListedDocuments ==
    {PyDict((K__id :> Oid(1)) @@ (K_name :> PyStr(<<"Joe">>)) @@ (K_secret :> PyInt(1))),
     PyDict((K__id :> Oid(2)) @@ (K_address :> PyDict(K__id :> Oid(3)))),
     PyDict(K_name :> Temporal("datetime", 1)),
     None}

DocumentSeqs ==
    {<<t, s>> : t \in {"list", "tuple"}, s \in SeqsUpTo(ListedDocuments, MaxListLen)}

InitSerialize ==
    /\ ConfigInit
    /\ exclude_fields \in ExcludeChoices
    /\ all_fields = (Cardinality(exclude_fields) = 0)
    /\ call \in {[op |-> "_serialize_model", model |-> m] :
                    m \in {None} \cup Documents \cup DocumentSeqs}
              \cup {[op |-> "_serialize_model_helper", model |-> m] : m \in SerValues}
    /\ ret = NoRet

SerializeModel ==
    /\ call.op = "_serialize_model"
    /\ ret = NoRet
    /\ ret' = _serialize_model(call.model)
    /\ UNCHANGED <<id_field, exclude_fields, all_fields, iter_order, store, db_calls, call>>
    /\ UNCHANGED <<manager_vars, walk>>

SerializeModelHelper ==
    /\ call.op = "_serialize_model_helper"
    /\ ret = NoRet
    /\ ret' = _serialize_model_helper(call.model)
    /\ UNCHANGED <<id_field, exclude_fields, all_fields, iter_order, store, db_calls, call>>
    /\ UNCHANGED <<manager_vars, walk>>

NextSerialize == SerializeModel \/ SerializeModelHelper

SpecSerialize == InitSerialize /\ [][NextSerialize]_vars

(***************************************************************************)
(* The collection: pymongo's find / sort / skip / limit / count over the   *)
(* documents of store.                                                     *)
(***************************************************************************)
K_page == <<"page">>
K_size == <<"size">>
K_sort == <<"sort">>
K_query == <<"query">>

\* str.lower on a symbol
LowerSym(c) ==
    CASE c = "Name" -> "name" [] c = "ASC" -> "asc" [] c = "DESC" -> "desc"
      [] c = "Ji" -> "ji" [] c = "Jo" -> "jo" [] c = "Ja" -> "ja"
      [] OTHER -> c
Lower(s) == [i \in 1..Len(s) |-> LowerSym(s[i])]

\* re.search(pattern, text, IGNORECASE) for a pattern without metacharacters
ContainsIgnoreCase(text, pattern) ==
    \E i \in 1..(Len(text) - Len(pattern) + 1) :
        Lower(SubSeq(text, i, i + Len(pattern) - 1)) = Lower(pattern)

\* Whether the document doc (a dict payload) satisfies the clause cond on key.
ClauseHolds(doc, key, cond) ==
    IF Tag(cond) = "dict" /\ K_in \in DOMAIN Val(cond)
    THEN /\ key \in DOMAIN doc
         /\ \E i \in 1..Len(Val(Val(cond)[K_in])) : doc[key] = Val(Val(cond)[K_in])[i]
    ELSE IF Tag(cond) = "dict" /\ K_regex \in DOMAIN Val(cond)
    THEN /\ key \in DOMAIN doc
         /\ Tag(doc[key]) = "str"
         /\ ContainsIgnoreCase(Val(doc[key]), Val(Val(cond)[K_regex]))
    ELSE IF key \in DOMAIN doc THEN doc[key] = cond ELSE cond = None

\* collection.find(query): the documents that satisfy every clause
Matches(doc, query) == \A key \in DOMAIN Val(query) : ClauseHolds(doc, key, Val(query)[key])

Find(docs, query) == SelectSeq(docs, LAMBDA d : Matches(d, query))

\* The BSON order of the values the documents are sorted by.
SortKey(v) ==
    CASE Tag(v) = "int" -> Val(v)
      [] Tag(v) = "oid" -> Val(v)
      [] v = PyStr(<<"Ja", "ne">>) -> 1
      [] v = PyStr(<<"Ji", "m">>) -> 2
      [] v = PyStr(<<"Jo", "hn">>) -> 3
      [] OTHER -> 0

FieldKey(doc, field) == IF field \in DOMAIN doc THEN SortKey(doc[field]) ELSE 0

\* doc a goes before doc b under sort(field, direction)
Before(a, b, field, direction) ==
    IF direction = 1 THEN FieldKey(a, field) < FieldKey(b, field)
    ELSE FieldKey(a, field) > FieldKey(b, field)

RECURSIVE InsertSorted(_, _, _, _)
InsertSorted(d, sorted, field, direction) ==
    IF sorted = <<>> THEN <<d>>
    ELSE IF Before(d, Head(sorted), field, direction) THEN <<d>> \o sorted
    ELSE <<Head(sorted)>> \o InsertSorted(d, Tail(sorted), field, direction)

RECURSIVE StableSort(_, _, _)
StableSort(docs, field, direction) ==
    IF docs = <<>> THEN <<>>
    ELSE InsertSorted(docs[Len(docs)],
                      StableSort(SubSeq(docs, 1, Len(docs) - 1), field, direction),
                      field, direction)

\* The order the server leaves documents of equal sort key in is not
\* specified: they come in natural order or in its reverse.
Ties == {"natural", "reverse"}

\* cursor.sort(field, direction)
CursorSort(docs, field, direction, tie) ==
    IF tie = "natural" THEN StableSort(docs, field, direction)
    ELSE StableSort(Reverse(docs), field, direction)

\* cursor.skip(skip).limit(limit)
CursorSkipLimit(docs, skip, limit) ==
    SubSeq(docs, skip + 1, IF skip + limit < Len(docs) THEN skip + limit ELSE Len(docs))

(***************************************************************************)
(* ripozo_mongokit.fields.SortField                                        *)
(***************************************************************************)
\* str.split(','): the symbols between the "," symbols, joined
RECURSIVE Split(_)
Split(s) ==
    IF \E i \in 1..Len(s) : s[i] = ","
    THEN LET i == CHOOSE j \in 1..Len(s) : s[j] = "," /\ \A k \in 1..(j - 1) : s[k] # ","
         IN  <<SubSeq(s, 1, i - 1)>> \o Split(SubSeq(s, i + 1, Len(s)))
    ELSE <<s>>

\* SortField._translate: (field, direction), None, or ValueError
SortField_translate(obj) ==
    IF Tag(obj) = "str" /\ Len(Split(Lower(Val(obj)))) = 2
    THEN LET vals == Split(Lower(Val(obj)))
         IN  <<"tuple", <<PyStr(vals[1]), PyInt(IF vals[2] = <<"asc">> THEN -1 ELSE 1)>> >>
    ELSE IF obj = None THEN None
    ELSE Raise("ValueError")

(***************************************************************************)
(* MongoKitManager.retrieve_list                                           *)
(***************************************************************************)
default_page_size == 10

\* dict.pop(key, default) : the value popped
Pop(f, key, default) == IF key \in DOMAIN f THEN f[key] ELSE default

\* int(math.ceil(count / page_size)) rounded down instead of up
PageCountFloor(count, page_size) == count \div page_size

\* int(math.ceil(count / page_size)) for page_size > 0
PageCount(count, page_size) == (count + page_size - 1) \div page_size

\* query_skip counted as if the first page were page 1
QuerySkipOneBased(page_size, page_number) ==
    IF page_size # 0 /\ page_number # 0 THEN page_size * (page_number - 1) ELSE 0

QuerySkip(page_size, page_number) ==
    IF page_size # 0 /\ page_number # 0 THEN page_size * page_number ELSE 0

Link(page, page_size) == PyDict((K_page :> PyInt(page)) @@ (K_size :> PyInt(page_size)))

\* A next link also on the last full page.
NextLinkInclusive(count, page_size, page_number) ==
    IF count >= page_size * (page_number + 1)
    THEN Link(page_number + 1, page_size) ELSE None

NextLink(count, page_size, page_number) ==
    IF count > page_size * (page_number + 1)
    THEN Link(page_number + 1, page_size) ELSE None

PreviousLink(page_size, page_number) ==
    IF page_number > 0 THEN Link(page_number - 1, page_size) ELSE None

FirstLink(page_size, page_number) ==
    IF page_number > 0 THEN Link(0, page_size) ELSE None

\* A last link that is dropped one page late.
LastLinkOffByOne(page_count, page_size, page_number) ==
    IF page_number # page_count THEN Link(page_count - 1, page_size) ELSE None

LastLink(page_count, page_size, page_number) ==
    IF page_number # (page_count - 1) THEN Link(page_count - 1, page_size) ELSE None

\* A returned value that is not a single Python value.
Result(r) == <<"result", r>>

\* A query in which the translated lookup wins over kwargs['query'].
QueryWithOverrideLookupWins(filters, kwargs) ==
    LET query == _get_query(filters)
    IN  IF IsRaise(query) \/ K_query \notin DOMAIN kwargs THEN query
        ELSE PyDict(Update(Val(kwargs[K_query]), Val(query)))

\* if 'query' in kwargs: query.update(kwargs['query'])
Overridden(query, kwargs) ==
    IF IsRaise(query) \/ K_query \notin DOMAIN kwargs THEN query
    ELSE PyDict(Update(Val(query), Val(kwargs[K_query])))

\* The query built from the filters, with kwargs['query'] merged in verbatim.
QueryWithOverride(filters, kwargs) == Overridden(_get_query(filters), kwargs)

\* What the collection was asked: find(query), sort(*sort_tuple), skip, limit,
\* and the documents of the cursor.
Calls(query, sort_tuple, skip, limit, cursor) ==
    [find |-> query, sort |-> sort_tuple, skip |-> skip, limit |-> limit, cursor |-> cursor]

\* find(query).sort(sort_tuple[0], sort_tuple[1]) if sort_tuple else find(query)
SortedCursor(found, sort_tuple, tie) ==
    IF sort_tuple # None
    THEN CursorSort(found, Val(Val(sort_tuple)[1]), Val(Val(sort_tuple)[2]), tie)
    ELSE found

\* The two dicts retrieve_list returns, for the serialized slice values.
Payload(values, count, page_count, page_size, page_number) ==
    IF IsRaise(values) THEN values
    ELSE Result([data |-> values,
                 page |-> [size |-> page_size,
                           totalElements |-> count,
                           totalPages |-> page_count,
                           number |-> page_number],
                 links |-> [next |-> NextLink(count, page_size, page_number),
                            prev |-> PreviousLink(page_size, page_number),
                            first |-> FirstLink(page_size, page_number),
                            last |-> LastLink(page_count, page_size, page_number)]])

\* From cursor.count() on: the page count, the slice, the links.
Paginate(query, sort_tuple, cursor, page_size, page_number) ==
    IF page_size = 0
    THEN <<Raise("ZeroDivisionError"), Calls(query, sort_tuple, None, None, cursor)>>
    ELSE <<Payload(_serialize_model(
                       PyList(CursorSkipLimit([i \in 1..Len(cursor) |-> PyDict(cursor[i])],
                                              QuerySkip(page_size, page_number), page_size))),
                   Len(cursor), PageCount(Len(cursor), page_size), page_size, page_number),
           Calls(query, sort_tuple, PyInt(QuerySkip(page_size, page_number)),
                 PyInt(page_size), cursor)>>

\* From the translated sort specification and query on: an exception of
\* the translation goes to the caller before the collection is asked.
FindAndPaginate(docs, query, sort_tuple, tie, page_size, page_number) ==
    IF IsRaise(sort_tuple) THEN <<sort_tuple, NoCalls>>
    ELSE IF IsRaise(query) THEN <<query, NoCalls>>
    ELSE Paginate(query, sort_tuple, SortedCursor(Find(docs, query), sort_tuple, tie),
                  page_size, page_number)

\* The filters left when page size, page number and sort are popped.
Popped(filters) ==
    PyDict([k \in (DOMAIN Val(filters)) \ {K_size, K_page, K_sort} |-> Val(filters)[k]])

\* retrieve_list(filters, **kwargs) on the documents docs; tie is the order
\* the server leaves equal sort keys in.  Returns <<returned value, calls made>>.
retrieve_list(docs, filters, kwargs, tie) ==
    FindAndPaginate(docs,
                    QueryWithOverride(Popped(filters), kwargs),
                    SortField_translate(Pop(Val(filters), K_sort, None)),
                    tie,
                    Val(Pop(Val(filters), K_size, PyInt(default_page_size))),
                    Val(Pop(Val(filters), K_page, PyInt(0))))

(***************************************************************************)
(* MongoKitManager.retrieve and MongoKitManager.retrieve_all               *)
(***************************************************************************)
\* collection.find_one(query): the first matching document, or None
find_one(docs, query) ==
    IF Find(docs, query) = <<>> THEN None ELSE PyDict(Find(docs, query)[1])

\* retrieve(lookup_keys, **kwargs) on the documents docs:
\* <<returned value, calls made>>.
retrieve(docs, lookup_keys, kwargs) ==
    LET query == QueryWithOverride(lookup_keys, kwargs)
    IN  IF IsRaise(query) THEN <<query, NoCalls>>
        ELSE LET model_document == find_one(docs, query)
             IN  <<_serialize_model(model_document),
                   [NoCalls EXCEPT !.find = query,
                                   !.cursor = IF model_document = None THEN <<>>
                                              ELSE <<Val(model_document)>>]>>

K_count == <<"count">>

\* retrieve_all(filters, **kwargs) on the documents docs:
\* <<(values, dict(count=count)), calls made>>.
retrieve_all(docs, filters, kwargs) ==
    LET query == QueryWithOverride(filters, kwargs)
    IN  IF IsRaise(query) THEN <<query, NoCalls>>
        ELSE LET cursor == Find(docs, query)
                 count == Len(cursor)
                 values == FirstRaise([i \in 1..Len(cursor) |->
                                         _serialize_model(PyDict(cursor[i]))])
             IN  <<IF IsRaise(values) THEN values
                   ELSE <<"tuple", <<values, PyDict(K_count :> PyInt(count))>> >>,
                   [NoCalls EXCEPT !.find = query, !.cursor = cursor]>>

(***************************************************************************)
(* MongoKitManager.update and MongoKitManager.delete                       *)
(***************************************************************************)
\* The query update() hands to find().
UpdateQuery(filters, updates) == _get_query(updates)

\* update(filters, updates) on the documents docs: <<returned value, the
\* documents afterwards, calls made>>.
update(docs, filters, updates) ==
    LET query == UpdateQuery(filters, updates)
    IN  IF IsRaise(query) THEN <<query, docs, NoCalls>>
        ELSE
          LET model_documents == Find(docs, query)
              saved == [i \in 1..Len(docs) |->
                          IF Matches(docs[i], query)
                          THEN Update(docs[i], Val(updates)) ELSE docs[i]]
              model_list == FirstRaise(
                  [j \in 1..Len(model_documents) |->
                      _serialize_model(PyDict(Update(model_documents[j], Val(updates))))])
          IN  <<model_list, saved,
                [NoCalls EXCEPT !.find = query, !.cursor = model_documents]>>

\* A delete that stops after the first matching document.
DeleteFirstOnly(docs, lookup_keys) ==
    LET query == _get_query(lookup_keys)
    IN  IF IsRaise(query) THEN <<query, docs, NoCalls>>
        ELSE <<EmptyDict,
               SelectSeq(docs, LAMBDA d : ~Matches(d, query) \/ d # Find(docs, query)[1]),
               [NoCalls EXCEPT !.find = query, !.cursor = Find(docs, query)]>>

\* delete(lookup_keys) on the documents docs: <<returned value, the
\* documents afterwards, calls made>>.
delete(docs, lookup_keys) ==
    LET query == _get_query(lookup_keys)
    IN  IF IsRaise(query) THEN <<query, docs, NoCalls>>
        ELSE <<EmptyDict, SelectSeq(docs, LAMBDA d : ~Matches(d, query)),
               [NoCalls EXCEPT !.find = query, !.cursor = Find(docs, query)]>>

(***************************************************************************)
(* The manager at work on a collection.                                    *)
(***************************************************************************)
Names == <<PyStr(<<"Jo", "hn">>), PyStr(<<"Ji", "m">>), PyStr(<<"Ja", "ne">>)>>
Ages == <<PyInt(55), PyInt(77)>>

\* The collection when the manager is constructed: n documents.
StoreOfSize(n) ==
    [i \in 1..n |-> (K__id :> Oid(i)) @@ (K_name :> Names[(i % Len(Names)) + 1])
                    @@ (K_age :> Ages[(i % Len(Ages)) + 1])]

\* No call is under way.
Idle == [op |-> "idle"]

SortSpecs ==
    {Missing, PyStr(<<"name", ",", "asc">>), PyStr(<<"name", ",", "desc">>),
     PyStr(<<"age", ",", "desc">>), PyStr(<<"name">>)}

\* More of them: a field in capitals, another direction token, three
\* parts, a value that is no string.
OtherSortSpecs ==
    {PyStr(<<"Name", ",", "asc">>), PyStr(<<"name", ",", "up">>),
     PyStr(<<"name", ",", "asc", ",", "age">>), PyInt(5)}

ListFilters == {EmptyFn, K_name :> Names[2]}

RetrieveListFilters ==
    {PyDict(Present((K_size :> sz) @@ (K_page :> pg) @@ (K_sort :> so)) @@ f) :
        sz \in {Missing} \cup {PyInt(n) : n \in 0..MaxPageSize},
        pg \in {Missing} \cup {PyInt(n) : n \in 0..MaxPageNumber},
        so \in SortSpecs,
        f \in ListFilters}
    \cup {PyDict(Present((K_size :> sz) @@ (K_sort :> so))) :
            sz \in {Missing, PyInt(MaxPageSize)},
            so \in OtherSortSpecs}

\* The keyword arguments of a call: none, or a ready query.
Kwargs == {EmptyFn, K_query :> PyDict(K_age :> PyInt(55))}

UpdateFilters == {PyDict(K_name :> Names[1]), PyDict(K_age :> PyInt(55)), EmptyDict}
Updates == {PyDict(K_age :> PyInt(77)), PyDict(K_name :> Names[2])}

DeleteLookups ==
    {EmptyDict, PyDict(K_name :> Names[2]), PyDict(K_nameRegex :> PyStr(<<"jo">>)),
     PyDict(K_age :> PyList(<<PyInt(55)>>)), PyDict(K_id :> PyStr(HexUpper[1]))}

\* The lookups of retrieve and retrieve_all: none, by field, by id (as
\* the tests do), by pattern.
RetrieveLookups ==
    {None, EmptyDict, PyDict(K_name :> Names[2]), PyDict(K_age :> PyInt(77)),
     PyDict(K_id :> PyStr(HexLower[2])), PyDict(K__id :> PyStr(HexLower[2])),
     PyDict((K_nameRegex :> PyStr(<<"ji">>)) @@ (K_age :> PyList(<<PyInt(55), PyInt(77)>>)))}

\* Their keyword arguments: also a ready query on the id field.
RetrieveKwargs == Kwargs \cup {K_query :> PyDict(K_id :> PyStr(HexLower[1]))}

Init ==
    /\ \E c \in Configs :
         /\ id_field = c[1]
         /\ exclude_fields = c[2]
         /\ all_fields = (Cardinality(c[2]) = 0)
    /\ iter_order = KeyOrder
    /\ store \in {StoreOfSize(n) : n \in 0..MaxDocs}
    /\ db_calls = NoCalls
    /\ call = Idle
    /\ ret = NoRet
    /\ Constructed
    /\ walk = NoWalk

RetrieveList ==
    /\ call = Idle
    /\ \E filters \in RetrieveListFilters, kwargs \in Kwargs, tie \in Ties :
        \E r \in {retrieve_list(store, filters, kwargs, tie)} :
            /\ call' = [op |-> "retrieve_list", filters |-> filters, kwargs |-> kwargs]
            /\ ret' = r[1]
            /\ db_calls' = r[2]
            /\ UNCHANGED <<id_field, exclude_fields, all_fields, iter_order, store>>
            /\ UNCHANGED <<manager_vars, walk>>

UpdateCall ==
    /\ call = Idle
    /\ \E filters \in UpdateFilters, updates \in Updates :
        \E r \in {update(store, filters, updates)} :
            /\ call' = [op |-> "update", filters |-> filters, updates |-> updates,
                        before |-> store]
            /\ ret' = r[1]
            /\ store' = r[2]
            /\ db_calls' = r[3]
            /\ UNCHANGED <<id_field, exclude_fields, all_fields, iter_order>>
            /\ UNCHANGED <<manager_vars, walk>>

DeleteCall ==
    /\ call = Idle
    /\ \E lookup_keys \in DeleteLookups :
        \E r \in {delete(store, lookup_keys)} :
            /\ call' = [op |-> "delete", lookup_keys |-> lookup_keys, before |-> store]
            /\ ret' = r[1]
            /\ store' = r[2]
            /\ db_calls' = r[3]
            /\ UNCHANGED <<id_field, exclude_fields, all_fields, iter_order>>
            /\ UNCHANGED <<manager_vars, walk>>

RetrieveCall ==
    /\ call = Idle
    /\ \E lookup_keys \in RetrieveLookups, kwargs \in RetrieveKwargs :
        \E r \in {retrieve(store, lookup_keys, kwargs)} :
            /\ call' = [op |-> "retrieve", lookup_keys |-> lookup_keys, kwargs |-> kwargs]
            /\ ret' = r[1]
            /\ db_calls' = r[2]
            /\ UNCHANGED <<id_field, exclude_fields, all_fields, iter_order, store>>
            /\ UNCHANGED <<manager_vars, walk>>

RetrieveAllCall ==
    /\ call = Idle
    /\ \E filters \in RetrieveLookups, kwargs \in RetrieveKwargs :
        \E r \in {retrieve_all(store, filters, kwargs)} :
            /\ call' = [op |-> "retrieve_all", filters |-> filters, kwargs |-> kwargs]
            /\ ret' = r[1]
            /\ db_calls' = r[2]
            /\ UNCHANGED <<id_field, exclude_fields, all_fields, iter_order, store>>
            /\ UNCHANGED <<manager_vars, walk>>

\* What a client asks for when it starts to page through a listing: the
\* first page, of a page size > 0 or of the default one.
WalkFilters ==
    {PyDict(Present((K_size :> sz) @@ (K_page :> pg) @@ (K_sort :> so)) @@ f) :
        sz \in {Missing} \cup {PyInt(n) : n \in 1..MaxPageSize},
        pg \in {PyInt(0)},
        so \in {Missing, PyStr(<<"age", ",", "desc">>)},
        f \in ListFilters}

\* The client asks for the first page: RetrievePageList.retrieve_list hands
\* the query arguments to the manager, without a ready query, and the links
\* back to the client.
WalkFirstPage ==
    /\ call = Idle
    /\ \E filters \in WalkFilters, kwargs \in {EmptyFn}, tie \in Ties :
        \E r \in {retrieve_list(store, filters, kwargs, tie)} :
            /\ call' = [op |-> "retrieve_list", filters |-> filters, kwargs |-> kwargs]
            /\ ret' = r[1]
            /\ db_calls' = r[2]
            /\ walk' = [calls |-> 1, data |-> Val(Val(r[1]).data)]
            /\ UNCHANGED <<id_field, exclude_fields, all_fields, iter_order, store>>
            /\ UNCHANGED manager_vars

\* The client follows the next link of the page it has: the same filters
\* and ready query, with the page and the size of the link.
WalkNextPage ==
    /\ walk.calls > 0
    /\ call.op = "retrieve_list"
    /\ Tag(ret) = "result"
    /\ Val(ret).links.next # None
    /\ \E tie \in Ties, next \in {Val(Val(ret).links.next)} :
        \E filters \in {PyDict(Put(Put(Val(call.filters), K_page, next[K_page]),
                                   K_size, next[K_size]))} :
        \E r \in {retrieve_list(store, filters, call.kwargs, tie)} :
            /\ call' = [op |-> "retrieve_list", filters |-> filters, kwargs |-> call.kwargs]
            /\ ret' = r[1]
            /\ db_calls' = r[2]
            /\ walk' = [calls |-> walk.calls + 1, data |-> walk.data \o Val(Val(r[1]).data)]
            /\ UNCHANGED <<id_field, exclude_fields, all_fields, iter_order, store>>
            /\ UNCHANGED manager_vars

\* The call has returned to its caller: the manager waits for the next one.
Return ==
    /\ call # Idle
    /\ call' = Idle
    /\ ret' = NoRet
    /\ db_calls' = NoCalls
    /\ walk' = NoWalk
    /\ UNCHANGED <<id_field, exclude_fields, all_fields, iter_order, store>>
    /\ UNCHANGED manager_vars

Next ==
    \/ RetrieveCall
    \/ RetrieveAllCall
    \/ RetrieveList
    \/ WalkFirstPage
    \/ WalkNextPage
    \/ UpdateCall
    \/ DeleteCall
    \/ Return

Spec == Init /\ [][Next]_vars

(***************************************************************************)
(* Properties of _get_query (checked under SpecQuery).                     *)
(***************************************************************************)
QueryDone == call.op = "_get_query" /\ ret # NoRet
QueryOfDict == QueryDone /\ Tag(call.lookup_keys) = "dict"

IsHex24(s) == \E n \in OidNumbers : s \in {HexLower[n], HexUpper[n]}
ParsedOid(s) == Oid(CHOOSE n \in OidNumbers : s \in {HexLower[n], HexUpper[n]})

\* K without its trailing regex suffix
StripSuffix(K) == SubSeq(K, 1, Len(K) - Len(regex_suffix))

\* The key of the query that the lookup key K is translated to.
QueryKey(K) ==
    IF K = id_field THEN K__id
    ELSE IF EndsWith(K, regex_suffix) THEN Replace(K, regex_suffix)
    ELSE K

\* No other key of the mapping L is translated to the query key of K.
AloneOnQueryKey(L, K) == \A K2 \in (DOMAIN L) \ {K} : QueryKey(K2) # QueryKey(K)

\* C2 (as claimed): whenever the lookup mapping has the key id_field, the
\* translation returns a query (no error) that holds the value under '_id':
\* the parsed identifier when the value is a string of 24 hex digits, the raw
\* value otherwise; and nothing is stored under id_field when it is not '_id'.
\* Stated for mappings in which no other key is translated to '_id'.
C2_IdStoredUnderReservedKey ==
    (/\ QueryOfDict
     /\ id_field \in DOMAIN Val(call.lookup_keys)
     /\ AloneOnQueryKey(Val(call.lookup_keys), id_field))
    => LET value == Val(call.lookup_keys)[id_field]
       IN  /\ ~IsRaise(ret)
           /\ K__id \in DOMAIN Val(ret)
           /\ Val(ret)[K__id] = IF Tag(value) = "str" /\ IsHex24(Val(value))
                                THEN ParsedOid(Val(value))
                                ELSE value
           /\ id_field # K__id => id_field \notin DOMAIN Val(ret)

\* C3 (as claimed): in a returned query, every non-id key K that ends with
\* the regex suffix appears as K without that trailing suffix (the rest of K
\* unchanged), holding {'$regex': str(V), '$options': 'i'}.  Stated for
\* mappings in which no other key is translated to the same query key.
C3_RegexKeyLosesTrailingSuffix ==
    (QueryOfDict /\ ~IsRaise(ret))
    => \A K \in DOMAIN Val(call.lookup_keys) :
         (/\ K # id_field
          /\ EndsWith(K, regex_suffix)
          /\ AloneOnQueryKey(Val(call.lookup_keys), K))
         => /\ StripSuffix(K) \in DOMAIN Val(ret)
            /\ Val(ret)[StripSuffix(K)] =
                 PyDict((K_regex :> PyStr(ToStr(Val(call.lookup_keys)[K])))
                        @@ (K_options :> PyStr(<<"i">>)))

\* What C4 says the pair (K, V) of a non-id, non-regex key becomes.
PlainEntryTranslated(K, V, query) ==
    /\ K \in DOMAIN query
    /\ IF IsSeqTag(Tag(V))
       THEN /\ Tag(query[K]) = "dict"
            /\ DOMAIN Val(query[K]) = {K_in}
            /\ Tag(Val(query[K])[K_in]) = "list"
            /\ Len(Val(Val(query[K])[K_in])) = Len(Val(V))
            /\ \A i \in 1..Len(Val(V)) :
                 Val(Val(query[K])[K_in])[i] = _get_query(Val(V)[i])
       ELSE IF Tag(V) = "dict" THEN query[K] = _get_query(V)
       ELSE query[K] = V

\* A non-mapping lookup comes back unchanged, a falsy one as {}.
NonMappingPassedThrough ==
    (QueryDone /\ Tag(call.lookup_keys) # "dict")
    => ret = IF Truthy(call.lookup_keys) THEN call.lookup_keys ELSE EmptyDict

SerializeDone == call.op = "_serialize_model" /\ ret # NoRet

\* The rename of '_id' takes place on the document D.
Renames(D) == id_field # <<>> /\ K__id \in DOMAIN D

\* What C5 says of a document D (a dict payload) and its serialized form R
\* (a dict payload): the id renamed first, the excluded fields deleted next.
RenamedThenExcluded(D, R) ==
    \* the renamed id, in string form, unless id_field itself is excluded
    /\ (Renames(D) /\ id_field \notin exclude_fields)
       => (id_field \in DOMAIN R /\ R[id_field] = PyStr(ToStr(D[K__id])))
    \* no '_id' key remains after the rename
    /\ (Renames(D) /\ id_field # K__id) => K__id \notin DOMAIN R
    \* no rename without an id_field or without '_id'
    /\ (~Renames(D) /\ id_field \notin DOMAIN D) => id_field \notin DOMAIN R
    /\ (id_field = <<>> /\ K__id \in DOMAIN D /\ K__id \notin exclude_fields)
       => K__id \in DOMAIN R
    \* every excluded field is deleted, the renamed id included
    /\ \A f \in exclude_fields : f \notin DOMAIN R
    \* every other field is kept, and nothing is added
    /\ \A k \in (DOMAIN D) \ (exclude_fields \cup {K__id}) : k \in DOMAIN R
    /\ DOMAIN R \subseteq (DOMAIN D) \cup {id_field}
    /\ \A k \in ((DOMAIN D) \cap (DOMAIN R)) \ (IF Renames(D) THEN {id_field} ELSE {}) :
         R[k] = _serialize_model_helper(D[k])

\* C5: a top-level document, and each document of a sequence of documents,
\* is serialized with '_id' renamed to id_field in string form (only when
\* id_field is non-empty and '_id' is present) and, after that, with every
\* excluded field deleted: an exclusion naming id_field removes the renamed
\* id, one naming '_id' does not; every non-excluded field is kept; and
\* {'_id': X, 'name': 'Joe', 'secret': 1} with id_field 'id' and
\* exclude_fields ('secret',) becomes {'id': str(X), 'name': 'Joe'}.
C5_RenameThenExclude ==
    (SerializeDone /\ ~IsRaise(ret))
    => /\ Tag(call.model) = "dict"
          => (Tag(ret) = "dict" /\ RenamedThenExcluded(Val(call.model), Val(ret)))
       /\ IsSeqTag(Tag(call.model))
          => /\ Tag(ret) = "list"
             /\ Len(Val(ret)) = Len(Val(call.model))
             /\ \A i \in 1..Len(Val(ret)) :
                  Tag(Val(call.model)[i]) = "dict"
                  => /\ Tag(Val(ret)[i]) = "dict"
                     /\ RenamedThenExcluded(Val(Val(call.model)[i]), Val(Val(ret)[i]))
       /\ (/\ call.model = PyDict((K__id :> Oid(1)) @@ (K_name :> PyStr(<<"Joe">>))
                                  @@ (K_secret :> PyInt(1)))
           /\ id_field = K_id
           /\ exclude_fields = {K_secret})
          => ret = PyDict((K_id :> PyStr(HexLower[1])) @@ (K_name :> PyStr(<<"Joe">>)))

\* C5 witness: the scenario document has been serialized under id_field 'id'
\* with 'secret' excluded.
C5_Witness ==
    /\ SerializeDone
    /\ call.model = PyDict((K__id :> Oid(1)) @@ (K_name :> PyStr(<<"Joe">>))
                           @@ (K_secret :> PyInt(1)))
    /\ id_field = K_id
    /\ exclude_fields = {K_secret}
    /\ Tag(ret) = "dict"

\* C5 witness of the order: '_id' is excluded, id_field is 'id', and the
\* serialized document of a sequence still carries the renamed id.
C5_WitnessExcludedReservedKey ==
    /\ SerializeDone
    /\ K__id \in exclude_fields
    /\ id_field = K_id
    /\ Tag(call.model) = "tuple"
    /\ Tag(ret) = "list"
    /\ \E i \in 1..Len(Val(ret)) :
         /\ Tag(Val(call.model)[i]) = "dict"
         /\ K__id \in DOMAIN Val(Val(call.model)[i])
         /\ K_id \in DOMAIN Val(Val(ret)[i])

\* What C6 says the value r converted from the value v is, at every depth.
RECURSIVE Converted(_, _)
Converted(v, r) ==
    CASE Tag(v) = "oid" -> r = PyStr(IF Val(v) = 0 THEN <<"generated">> ELSE HexLower[Val(v)])
      [] IsTemporalTag(Tag(v)) -> Tag(r) = "str" /\ Val(r) = TemporalStr(Tag(v), Val(v))
      [] IsSeqTag(Tag(v)) ->
            /\ Tag(r) = "list"
            /\ Len(Val(r)) = Len(Val(v))
            /\ \A i \in 1..Len(Val(v)) : Converted(Val(v)[i], Val(r)[i])
      [] Tag(v) = "dict" ->
            /\ Tag(r) = "dict"
            /\ DOMAIN Val(r) = DOMAIN Val(v)
            /\ \A k \in DOMAIN Val(v) : Converted(Val(v)[k], Val(r)[k])
      [] OTHER -> r = v

\* The field k of the serialized document R comes from the field k of D.
FieldOf(D, k) == k \in DOMAIN D /\ ~(Renames(D) /\ k = id_field)

\* C6: the helper converts identifiers and temporal values to their string
\* form, list/set/tuple values to lists of converted elements, mappings to
\* mappings with the same keys and converted values, at every depth, and
\* leaves other scalars unchanged; _serialize_model does so for every field
\* of a document that it keeps; _serialize_model(None) is {} and
\* _serialize_model([]) is [].
C6_ConvertedAtEveryDepth ==
    /\ (call.op = "_serialize_model_helper" /\ ret # NoRet)
       => Converted(call.model, ret)
    /\ (SerializeDone /\ call.model = None) => ret = EmptyDict
    /\ (SerializeDone /\ call.model = PyList(<<>>)) => ret = PyList(<<>>)
    /\ (SerializeDone /\ ~IsRaise(ret) /\ Tag(call.model) = "dict")
       => \A k \in DOMAIN Val(ret) :
            FieldOf(Val(call.model), k) => Converted(Val(call.model)[k], Val(ret)[k])
    /\ (SerializeDone /\ ~IsRaise(ret) /\ IsSeqTag(Tag(call.model)))
       => \A i \in 1..Len(Val(ret)) :
            Tag(Val(call.model)[i]) = "dict"
            => \A k \in DOMAIN Val(Val(ret)[i]) :
                 FieldOf(Val(Val(call.model)[i]), k)
                 => Converted(Val(Val(call.model)[i])[k], Val(Val(ret)[i])[k])

\* C6 witness: the helper has converted a mapping whose value is a mapping
\* that holds a tuple of a mapping with an identifier.
C6_Witness ==
    /\ call.op = "_serialize_model_helper"
    /\ call.model = PyDict(K_address :>
                        PyDict(K_secret :> <<"tuple", <<PyDict(K_id :> Oid(1))>> >>))
    /\ ret = PyDict(K_address :>
                 PyDict(K_secret :> PyList(<<PyDict(K_id :> PyStr(HexLower[1]))>>)))

\* C6 witness at the top level: a kept field of a serialized document holds
\* a mapping with an identifier two levels down.
C6_WitnessDocument ==
    /\ SerializeDone
    /\ Tag(call.model) = "dict"
    /\ K_address \in DOMAIN Val(call.model)
    /\ Val(call.model)[K_address] = PyDict(K_address :> PyDict(K__id :> Oid(2)))
    /\ Tag(ret) = "dict"
    /\ Val(ret)[K_address] = PyDict(K_address :> PyDict(K__id :> PyStr(HexLower[2])))

(***************************************************************************)
(* Properties of update (checked under Spec).                              *)
(***************************************************************************)
\* C1 (as claimed): update(filters, updates) applies updates to exactly the
\* stored documents that match the query translated from filters, saves
\* them, leaves every other document unchanged, and returns the list of the
\* serialized forms of the documents it updated.
C1_UpdateAppliesToFiltered ==
    (call.op = "update" /\ ret # NoRet)
    => LET query == _get_query(call.filters)
           updated == [i \in 1..Len(call.before) |->
                         IF Matches(call.before[i], query)
                         THEN Update(call.before[i], Val(call.updates))
                         ELSE call.before[i]]
           matching == SelectSeq(updated, LAMBDA d :
                         \E i \in 1..Len(call.before) :
                             Matches(call.before[i], query) /\ updated[i] = d)
       IN  /\ store = updated
           /\ ret = PyList([j \in 1..Len(matching) |-> _serialize_model(PyDict(matching[j]))])

(***************************************************************************)
(* Properties of retrieve_list (checked under Spec).                       *)
(***************************************************************************)
\* The page size and page number asked for, and the remaining filters.
AskedSize == Val(Pop(Val(call.filters), K_size, PyInt(default_page_size)))
AskedPage == Val(Pop(Val(call.filters), K_page, PyInt(0)))
AskedFilters ==
    PyDict([k \in (DOMAIN Val(call.filters)) \ {K_size, K_page, K_sort} |->
              Val(call.filters)[k]])

\* retrieve_list has returned its payload for a page size > 0.
ListDone ==
    /\ call.op = "retrieve_list"
    /\ Tag(ret) = "result"
    /\ AskedSize > 0
    /\ AskedPage >= 0

\* The link {page: n, size: page_size}
LinkTo(n, page_size) == PyDict((<<"page">> :> PyInt(n)) @@ (<<"size">> :> PyInt(page_size)))

\* The documents of the collection that match the translation of the
\* remaining filters and the ready query of the call, if it has one.
AllMatching ==
    {i \in 1..Len(store) :
        /\ Matches(store[i], _get_query(AskedFilters))
        /\ K_query \in DOMAIN call.kwargs => Matches(store[i], call.kwargs[K_query])}

\* C7: the page descriptor holds size = page_size, number = page_number,
\* totalElements = the number of all documents matching the query (whatever
\* the page), and totalPages = ceil(totalElements / page_size), the least
\* number of pages of page_size that hold totalElements; 11 elements in
\* pages of 2 make 6 pages.
C7_PageDescriptor ==
    ListDone
    => LET page == Val(ret).page
       IN  /\ page.size = AskedSize
           /\ page.number = AskedPage
           /\ page.totalElements = Cardinality(AllMatching)
           /\ page.totalPages * AskedSize >= page.totalElements
           /\ (page.totalPages - 1) * AskedSize < page.totalElements
              \/ (page.totalElements = 0 /\ page.totalPages = 0)
           /\ (page.totalElements = 11 /\ AskedSize = 2) => page.totalPages = 6

\* C7 witness: page 2 of 11 matching documents in pages of 2.
C7_Witness ==
    /\ ListDone
    /\ Val(ret).page = [size |-> 2, totalElements |-> 11, totalPages |-> 6, number |-> 2]

\* C8: next is present iff count > page_size * (page_number + 1) and is then
\* {page: page_number + 1, size: page_size}; prev and first are present iff
\* page_number > 0 and are then {page: page_number - 1, size: page_size} and
\* {page: 0, size: page_size}; an absent link is None.  With count 11,
\* page_size 2, page_number 2: next 3, prev 1, first 0.
C8_NextPrevFirstLinks ==
    ListDone
    => LET links == Val(ret).links
           count == Cardinality(AllMatching)
       IN  /\ links.next = IF count > AskedSize * (AskedPage + 1)
                           THEN LinkTo(AskedPage + 1, AskedSize) ELSE None
           /\ links.prev = IF AskedPage > 0 THEN LinkTo(AskedPage - 1, AskedSize) ELSE None
           /\ links.first = IF AskedPage > 0 THEN LinkTo(0, AskedSize) ELSE None
           /\ (count = 11 /\ AskedSize = 2 /\ AskedPage = 2)
              => /\ links.next = LinkTo(3, 2)
                 /\ links.prev = LinkTo(1, 2)
                 /\ links.first = LinkTo(0, 2)

\* C8 witness: the three links of page 2 of 11 documents in pages of 2.
C8_Witness ==
    /\ ListDone
    /\ Cardinality(AllMatching) = 11
    /\ Val(ret).links.next = LinkTo(3, 2)
    /\ Val(ret).links.prev = LinkTo(1, 2)
    /\ Val(ret).links.first = LinkTo(0, 2)

C9_WitnessLastPage ==
    /\ ListDone
    /\ Cardinality(AllMatching) = 11
    /\ AskedSize = 2
    /\ AskedPage = 5
    /\ Val(ret).links.last = None

\* The cursor the slice is taken from is in the order of the sort handed to
\* the collection.
CursorSorted ==
    db_calls.sort # None
    => LET field == Val(Val(db_calls.sort)[1])
           direction == Val(Val(db_calls.sort)[2])
       IN  \A i, j \in 1..Len(db_calls.cursor) :
             i < j => IF direction = 1
                      THEN FieldKey(db_calls.cursor[i], field) <= FieldKey(db_calls.cursor[j], field)
                      ELSE FieldKey(db_calls.cursor[i], field) >= FieldKey(db_calls.cursor[j], field)

\* The cursor holds the matching documents, each once.
CursorIsMatching ==
    /\ Len(db_calls.cursor) = Cardinality(AllMatching)
    /\ \A i \in AllMatching : \E j \in 1..Len(db_calls.cursor) : db_calls.cursor[j] = store[i]

\* C10: for page_size > 0 and page_number >= 0 the collection is asked for
\* skip = page_size * page_number and limit = page_size of the matching
\* documents, sorted when a sort specification is given; data is the
\* serialization of that slice and holds at most page_size elements.
C10_SliceOfPage ==
    ListDone
    => LET skip == AskedSize * AskedPage
           last == IF skip + AskedSize < Len(db_calls.cursor)
                   THEN skip + AskedSize ELSE Len(db_calls.cursor)
       IN  /\ db_calls.skip = PyInt(skip)
           /\ db_calls.limit = PyInt(AskedSize)
           /\ (Pop(Val(call.filters), K_sort, None) # None) <=> (db_calls.sort # None)
           /\ CursorSorted
           /\ CursorIsMatching
           /\ Val(ret).data =
                _serialize_model(PyList([i \in 1..(IF last > skip THEN last - skip ELSE 0) |->
                                           PyDict(db_calls.cursor[skip + i])]))
           /\ Len(Val(Val(ret).data)) <= AskedSize

\* C10 witness: the second page of two documents of a sorted cursor that
\* holds more than four.
C10_Witness ==
    /\ ListDone
    /\ db_calls.sort # None
    /\ AskedSize = 2
    /\ AskedPage = 1
    /\ Len(db_calls.cursor) > 4
    /\ Len(Val(Val(ret).data)) = 2
    /\ db_calls.skip = PyInt(2)

(***************************************************************************)
(* Properties of retrieve, retrieve_all and delete (checked under Spec).   *)
(***************************************************************************)
\* The ready query of the call, if it has one.
ReadyQuery == IF K_query \in DOMAIN call.kwargs THEN Val(call.kwargs[K_query]) ELSE EmptyFn

\* The translation of lookup with the entries of Q laid over it.
Overlaid(lookup, Q) ==
    LET translated == Val(_get_query(lookup))
    IN  PyDict([k \in (DOMAIN translated) \cup (DOMAIN Q) |->
                  IF k \in DOMAIN Q THEN Q[k] ELSE translated[k]])

\* C11: retrieve(lookup_keys, query=Q) calls find_one with the translation
\* of lookup_keys overlaid with Q as it is (Q wins on a key of both, and the
\* values of Q are not translated), and returns the serialization of the
\* document found, or {} when no document matches.
C11_RetrieveOverlaysQuery ==
    (call.op = "retrieve" /\ ret # NoRet)
    => LET query == Overlaid(call.lookup_keys, ReadyQuery)
           hits == {i \in 1..Len(store) : Matches(store[i], query)}
       IN  /\ db_calls.find = query
           /\ \A k \in DOMAIN ReadyQuery : Val(db_calls.find)[k] = ReadyQuery[k]
           /\ IF hits = {} THEN ret = EmptyDict /\ db_calls.cursor = <<>>
              ELSE \E i \in hits : /\ db_calls.cursor = <<store[i]>>
                                   /\ ret = _serialize_model(PyDict(store[i]))

\* C11 witness: a document is found under a ready query that overrides
\* the lookup's own value for the same key.
C11_Witness ==
    /\ call.op = "retrieve"
    /\ Tag(call.lookup_keys) = "dict"
    /\ \E k \in (DOMAIN Val(call.lookup_keys)) \cap (DOMAIN ReadyQuery) :
          /\ Val(call.lookup_keys)[k] # ReadyQuery[k]
          /\ Len(db_calls.cursor) = 1
          /\ db_calls.cursor[1][k] = ReadyQuery[k]
    /\ Tag(ret) = "dict"
    /\ ret # EmptyDict

\* C11 witness of the other cases: a ready query on the id field is not
\* translated and matches nothing, so {} is returned.
C11_WitnessUntranslated ==
    /\ call.op = "retrieve"
    /\ K_id \in DOMAIN ReadyQuery
    /\ id_field = K_id
    /\ Len(store) > 0
    /\ Val(db_calls.find)[K_id] = PyStr(HexLower[1])
    /\ ret = EmptyDict

\* C12: delete(lookup_keys) deletes every stored document that matches the
\* query translated from lookup_keys and no other, and returns {}; on the
\* store it leaves, retrieve(lookup_keys) returns {} and
\* retrieve_all(lookup_keys) returns ([], {count: 0}).
C12_DeleteRemovesMatching ==
    (call.op = "delete" /\ ret # NoRet)
    => LET query == _get_query(call.lookup_keys)
           kept == {i \in 1..Len(call.before) : ~Matches(call.before[i], query)}
       IN  /\ ret = EmptyDict
           /\ Len(store) = Cardinality(kept)
           /\ \A i \in 1..Len(call.before) :
                 (i \in kept) <=> \E j \in 1..Len(store) : store[j] = call.before[i]
           /\ retrieve(store, call.lookup_keys, EmptyFn)[1] = EmptyDict
           /\ retrieve_all(store, call.lookup_keys, EmptyFn)[1]
                = <<"tuple", <<PyList(<<>>), PyDict(<<"count">> :> PyInt(0))>> >>

\* C12 witness: a delete that removed several documents and left others.
C12_Witness ==
    /\ call.op = "delete"
    /\ ret = EmptyDict
    /\ Len(store) + 1 < Len(call.before)
    /\ Len(store) > 0

(***************************************************************************)
(* Properties of the sort specification (checked under Spec).              *)
(***************************************************************************)
\* The sort specification of the call, None when it has none.
AskedSort == Pop(Val(call.filters), K_sort, None)

\* The comma-separated parts of a sort specification that is a string.
SortParts(so) == IF Tag(so) = "str" THEN Split(Val(so)) ELSE <<>>

\* The documents of the cursor are in ascending (1) or descending (-1)
\* order of field.
CursorInOrder(field, direction) ==
    \A i, j \in 1..Len(db_calls.cursor) :
        i < j => IF direction = 1
                 THEN FieldKey(db_calls.cursor[i], field) <= FieldKey(db_calls.cursor[j], field)
                 ELSE FieldKey(db_calls.cursor[i], field) >= FieldKey(db_calls.cursor[j], field)

\* C13 (as claimed): the sort specification is handed to the store's sort as
\* (field, direction): 'field,asc' as (field, 1), the result ascending by
\* field; 'field,desc' as (field, -1), the result descending; the field name
\* exactly as given; and without a sort specification no sort call is made.
C13_SortHandedToStore ==
    (call.op = "retrieve_list" /\ Tag(ret) = "result")
    => LET parts == SortParts(AskedSort)
       IN  /\ AskedSort = None => db_calls.sort = None
           /\ (Len(parts) = 2 /\ parts[2] = <<"asc">>)
              => /\ db_calls.sort = <<"tuple", <<PyStr(parts[1]), PyInt(1)>> >>
                 /\ CursorInOrder(parts[1], 1)
           /\ (Len(parts) = 2 /\ parts[2] = <<"desc">>)
              => /\ db_calls.sort = <<"tuple", <<PyStr(parts[1]), PyInt(-1)>> >>
                 /\ CursorInOrder(parts[1], -1)

\* A sort specification of the form 'field,asc' or 'field,desc'.
SortWellFormed(so) ==
    /\ Len(SortParts(so)) = 2
    /\ SortParts(so)[2] \in {<<"asc">>, <<"desc">>}

\* C14 (as claimed): a sort specification that is present and is not of the
\* form 'field,asc' or 'field,desc' (not two parts, another direction token,
\* not a string) makes retrieve_list raise ValueError before anything is
\* asked of the store.
C14_MalformedSortRaises ==
    (call.op = "retrieve_list" /\ ret # NoRet /\ AskedSort # None /\ ~SortWellFormed(AskedSort))
    => /\ ret = Raise("ValueError")
       /\ db_calls = NoCalls

(***************************************************************************)
(* Properties of __init__ (checked under SpecConstruct).                   *)
(***************************************************************************)
\* C15: a manager constructed with a connection that is None or is not a
\* mongokit Connection raises ValueError, registers nothing and has no
\* collection handle; with a Connection the model is registered exactly
\* once, and the model's collection and database names are overwritten with
\* the configured ones only when both are configured.
C15_ConstructionChecksConnection ==
    (call.op = "__init__")
    => IF call.connection = None \/ Tag(call.connection) # "Connection"
       THEN /\ ret = Raise("ValueError")
            /\ registered = call.before.registered
            /\ collection = None
       ELSE /\ ret = None
            /\ registered = call.before.registered \o << <<model_cls.__name__>> >>
            /\ collection # None
            /\ IF database_name \notin {None, PyStr(<<>>)}
                  /\ collection_name \notin {None, PyStr(<<>>)}
               THEN /\ model_cls.__collection__ = collection_name
                    /\ model_cls.__database__ = database_name
               ELSE model_cls = call.before.model_cls

\* C15 witness: a construction on a Connection that overwrote the names
\* the model had.
C15_Witness ==
    /\ call.op = "__init__"
    /\ ret = None
    /\ call.before.model_cls.__collection__ = PyStr(<<"c">>)
    /\ model_cls.__collection__ = PyStr(<<"b">>)
    /\ model_cls.__database__ = PyStr(<<"a">>)
    /\ Len(registered) = 1

\* C15 witness of the rejection: after one manager was constructed, a
\* second construction without a connection raised and registered nothing.
C15_WitnessRejected ==
    /\ call.op = "__init__"
    /\ call.connection = None
    /\ ret = Raise("ValueError")
    /\ Len(registered) = 1
    /\ collection = None

(***************************************************************************)
(* Properties of sequences: of documents under _serialize_model (checked   *)
(* under SpecSerialize), of scalars under _get_query (under SpecQuery).    *)
(***************************************************************************)
\* C16 (as claimed): _serialize_model of a sequence of documents that holds
\* None entries returns, without raising, a sequence of the same length in
\* which the None entries are None at the same positions, whatever id_field
\* and exclude_fields are.
C16_NoneEntriesPreserved ==
    (/\ SerializeDone
     /\ IsSeqTag(Tag(call.model))
     /\ \E i \in 1..Len(Val(call.model)) : Val(call.model)[i] = None)
    => /\ ~IsRaise(ret)
       /\ Len(Val(ret)) = Len(Val(call.model))
       /\ \A i \in 1..Len(Val(call.model)) :
             Val(call.model)[i] = None => Val(ret)[i] = None

\* A value that is neither a sequence nor a mapping.
IsScalar(v) == ~IsSeqTag(Tag(v)) /\ Tag(v) # "dict"

\* C19 (as claimed): for a list / tuple / set of scalars under a non-id,
\* non-regex key, the '$in' clause of the query holds exactly the elements
\* of the input, the falsy ones (0, '', None) included.
C19_InClauseKeepsScalars ==
    QueryOfDict
    => \A K \in DOMAIN Val(call.lookup_keys) :
         LET V == Val(call.lookup_keys)[K]
         IN  (/\ K # id_field
              /\ ~_is_regex_field(K)
              /\ AloneOnQueryKey(Val(call.lookup_keys), K)
              /\ ~IsRaise(ret)
              /\ IsSeqTag(Tag(V))
              /\ \A i \in 1..Len(Val(V)) : IsScalar(Val(V)[i]))
             => Val(ret)[K] = PyDict(K_in :> PyList(Val(V)))

(***************************************************************************)
(* Properties of the links of retrieve_list (checked under Spec).          *)
(***************************************************************************)
\* C17 (as claimed): for page_size > 0 and page_number >= 0 every link that
\* is present (next, prev, first, last) points at an existing page: its page
\* lies in 0 .. totalPages - 1, and is never negative.
C17_LinksPointAtExistingPages ==
    ListDone
    => LET links == Val(ret).links
           present == {l \in {links.next, links.prev, links.first, links.last} : l # None}
       IN  \A l \in present : Val(Val(l)[K_page]) \in 0..(Val(ret).page.totalPages - 1)

\* A client is following the next links and has the page it asked for.
Walking == walk.calls > 0 /\ call.op = "retrieve_list" /\ Tag(ret) = "result"

\* C18 (as claimed): on a walk from page 0 along the next links, over an
\* unchanged store with the same query, sort and page size > 0: next is
\* present iff last is present on every call; the call without a next link
\* is call number max(totalPages, 1); and the data of the calls, put
\* together, holds every matching document exactly once.
C18_NextWalkCoversMatching ==
    Walking
    => LET links == Val(ret).links
           totalPages == Val(ret).page.totalPages
       IN  /\ (links.next # None) <=> (links.last # None)
           /\ links.next = None
              => /\ walk.calls = IF totalPages > 1 THEN totalPages ELSE 1
                 /\ Len(walk.data) = Cardinality(AllMatching)
                 /\ \A i \in AllMatching :
                       Cardinality({j \in 1..Len(walk.data) :
                                      walk.data[j] = _serialize_model(PyDict(store[i]))}) = 1

====
